---- MODULE Spec2Model ----
(***************************************************************************)
(* Model of metric-video-player: the frame source (VideoPlayer), the pixel *)
(* buffer normalisation inside next_frame, the pacing decisions of the     *)
(* driving loops (benchmark, CLI, egui, SDL) and the part of the metrics   *)
(* collector the loops feed.                                               *)
(*                                                                         *)
(* The decode capability (container reader, decoder, scaler) is external:  *)
(* what it answers to each call is an input of the call.  Wall-clock time  *)
(* is in nanoseconds, stream timestamps (Duration) in milliseconds.        *)
(***************************************************************************)
EXTENDS Integers, Sequences, FiniteSets, TLC

VARIABLES
    mode,                   \* which driving loop main() runs
    args_target_fps,        \* Args.target_fps
    pc,                     \* "running", "done", "failed", "panicked", "quit", "exited"
    now,                    \* wall clock, ns
    ticks,                  \* loop iterations taken so far
    \* VideoPlayer
    pkts_read,              \* packets format_context has handed out
    at_eof,                 \* format_context.packets() is exhausted
    decoder,                \* [ready, draining, produced]
    video_width,            \* decoder.width()
    video_height,           \* decoder.height()
    current_frame,
    total_frames,
    duration,               \* Duration, ms
    frame_duration,         \* Option<Duration>, ns
    last_frame_time,        \* VideoPlayer.last_frame_time, Option<Instant>
    call,                   \* what the last next_frame() call did and returned
    emitted,                \* every frame returned so far: its number, path, decoder place
    \* driving loops
    is_playing,
    decision,               \* should_advance of the last tick, and what it was taken on
    gui_last_frame_time,    \* egui: Option<Instant>; SDL: Instant
    frame_count,            \* benchmark / CLI
    pace,                   \* what the last maintain_target_fps() call did
    \* MetricsCollector
    metrics_total_frames,
    frame_metrics,
    frame_times,            \* VecDeque<(Instant, u64)>, the FPS window
    peak_memory_mb,
    peak_cpu_percent,
    metrics_last_frame_time,
    recorded,               \* every record_frame() call so far: its instant, frame_number, snapshots
    metrics_call,           \* the last call on the collector and what it returned
    dropped_frames,
    export_file             \* what the file at the export path holds

vars == <<mode, args_target_fps, pc, now, ticks, pkts_read, at_eof, decoder,
          current_frame, total_frames, duration, frame_duration,
          last_frame_time, call, emitted, is_playing, gui_last_frame_time,
          frame_count, metrics_total_frames, frame_metrics, video_width,
          video_height, decision, pace, frame_times, peak_memory_mb,
          peak_cpu_percent, metrics_last_frame_time, recorded, metrics_call,
          dropped_frames, export_file>>

playerVars == <<pkts_read, at_eof, decoder, current_frame, call, emitted>>
staticVars == <<mode, total_frames, duration, frame_duration,
                video_width, video_height>>
metricsVars == <<metrics_total_frames, frame_metrics, frame_times, peak_memory_mb,
                 peak_cpu_percent, metrics_last_frame_time, recorded,
                 metrics_call, dropped_frames, export_file>>

---------------------------------------------------------------------------
(* Bounds of the model *)

MaxPkts == 2        \* packets in the container
MaxItems == 2       \* frames the decoder makes receivable in all
MaxTicks == 3       \* loop iterations, or next_frame() calls
MaxWidth == 3       \* widths, heights and row paddings tried on the
MaxHeight == 3      \*   normalisation alone
MaxPad == 2
MaxFrames == 62     \* record_frame() calls on the collector alone
MaxVaried == 2      \* of these, the first calls take any input; the later
                    \*   ones repeat the steady input
MaxSamples == 3     \* record_frame() calls of a short session
MaxCalls == 2       \* finalize, export and increment calls of a short session

(* Program constants *)

NanosPerSec == 1000000000
DefaultIntervalNs == 33000000
FallbackFps == 30
FallbackDuration == 1
BytesPerPixel == 3
SleepNs == 1000000
MillisNs == 1000000
FpsWindowSize == 60

(* Units and input values *)

Secs(n) == n * 1000                    \* n seconds as a Duration of the model
TargetFpsValues == {0, 30}
EditedFpsValues == {1000}              \* typed into the Target FPS field
PtsValues == {<<>>, <<-1>>, <<3>>}     \* frame.timestamp(): Option<i64>
TimeBase == [num |-> 1, den |-> 2]     \* stream.time_base()
NbFramesValues == {0, 3}               \* video_stream.frames()
StreamDurationValues == {-1, 4}        \* video_stream.duration(), in time-base units
AvgFrameRateValues == {30}
VideoSize == [width |-> 1, height |-> 2]   \* decoder.width(), decoder.height()
Pads == {0, 1}                         \* row padding the scaler leaves, bytes
ByteBases == {250}
WorkTimes == {2000000}
CliWorkTimes == WorkTimes \cup {40000000}   \* a decode slower than the interval
IdleTimes == {SleepNs, 33333333}
\* what one record_frame() call meets: the time since the call before, the
\* process snapshots (0 when the process is not found) and the step of the
\* frame's stream timestamp, ms
SteadyInput == [dt |-> 16666666, memory_usage_mb |-> 5, cpu_usage_percent |-> 5, ts |-> 33]
RecordInputs ==
    {SteadyInput,
     [dt |-> 0, memory_usage_mb |-> 0, cpu_usage_percent |-> 0, ts |-> 0],
     [dt |-> SleepNs, memory_usage_mb |-> 9, cpu_usage_percent |-> 10, ts |-> 40],
     [dt |-> 33333333, memory_usage_mb |-> 7, cpu_usage_percent |-> 40, ts |-> -7]}
Modes == {"benchmark", "cli", "egui", "sdl"}

None == <<>>
Some(x) == <<x>>
IsSome(o) == o # <<>>
Unwrap(o) == o[1]

---------------------------------------------------------------------------
(* PixelBuffer normalisation: video_player.rs 144-166 and 203-220 *)

\* rgb_frame as the scaler leaves it: data(0) is stride(0) * height bytes
RgbFrame(width, height, pad, base) ==
    LET linesize == width * BytesPerPixel + pad IN
    [width |-> width, height |-> height, stride |-> linesize,
     data |-> [i \in 1..(linesize * height) |-> (base + i - 1) % 256]]

\* the loop taking one row more than the height
RECURSIVE CopyRowsOneMore(_, _, _, _, _, _)
CopyRowsOneMore(data_ptr, width, height, linesize, y, data) ==
    IF y > height THEN [ok |-> TRUE, data |-> data]
    ELSE LET row_start == y * linesize
             row_end == row_start + width * BytesPerPixel
         IN IF row_end > Len(data_ptr)
            THEN [ok |-> FALSE, data |-> data]
            ELSE CopyRowsOneMore(data_ptr, width, height, linesize, y + 1,
                                 data \o SubSeq(data_ptr, row_start + 1, row_end))

\* &data_ptr[row_start..row_end] panics when row_end > data_ptr.len()
RECURSIVE CopyRows(_, _, _, _, _, _)
CopyRows(data_ptr, width, height, linesize, y, data) ==
    IF y >= height THEN [ok |-> TRUE, data |-> data]
    ELSE LET row_start == y * linesize
             row_end == row_start + width * BytesPerPixel
         IN IF row_end > Len(data_ptr)
            THEN [ok |-> FALSE, data |-> data]
            ELSE CopyRows(data_ptr, width, height, linesize, y + 1,
                          data \o SubSeq(data_ptr, row_start + 1, row_end))

\* the copy without the row-by-row branch
StrideCopyDirect(rgb) == [ok |-> TRUE, data |-> rgb.data]

\* the fast path taking one byte per pixel
StrideCopyPixels(rgb) ==
    IF rgb.stride = rgb.width * BytesPerPixel
    THEN [ok |-> TRUE, data |-> SubSeq(rgb.data, 1, rgb.width * rgb.height)]
    ELSE CopyRows(rgb.data, rgb.width, rgb.height, rgb.stride, 0, <<>>)

\* normal-read path, lines 154-166
StrideCopy(rgb) ==
    IF rgb.stride = rgb.width * BytesPerPixel
    THEN [ok |-> TRUE, data |-> rgb.data]
    ELSE CopyRows(rgb.data, rgb.width, rgb.height, rgb.stride, 0, <<>>)

\* the flush copy without the row-by-row branch
FlushStrideCopyDirect(rgb) == [ok |-> TRUE, data |-> rgb.data]

\* flush path, lines 210-220
FlushStrideCopy(rgb) ==
    IF rgb.stride = rgb.width * BytesPerPixel
    THEN [ok |-> TRUE, data |-> rgb.data]
    ELSE CopyRows(rgb.data, rgb.width, rgb.height, rgb.stride, 0, <<>>)

---------------------------------------------------------------------------
(* Timestamps: video_player.rs 173-183, 222-224, 278-284 *)

\* Duration::from_secs_f64 panics on a negative or non-finite value;
\* a division by 0.0 of a positive f64 is +inf
GetNativeFps(tf, dur) ==
    IF dur > 0 THEN [num |-> tf * Secs(1), den |-> dur]
    ELSE [num |-> FallbackFps, den |-> 1]

\* current_frame as f64 / get_native_fps(), as a Duration
FallbackTimestamp(cf, tf, dur) ==
    LET fps == GetNativeFps(tf, dur) IN
    IF fps.num = 0 THEN [ok |-> FALSE, ts |-> 0]
    ELSE [ok |-> TRUE, ts |-> (cf * Secs(1) * fps.den) \div fps.num]

\* normal-read path, lines 173-183
Timestamp(pts, cf, tf, dur) ==
    IF IsSome(pts)
    THEN LET time_num == Unwrap(pts) * TimeBase.num IN
         IF time_num >= 0
         THEN [ok |-> TRUE, ts |-> (time_num * Secs(1)) \div TimeBase.den]
         ELSE FallbackTimestamp(cf, tf, dur)
    ELSE FallbackTimestamp(cf, tf, dur)

\* flush path, lines 222-224
FlushTimestamp(pts, cf, tf, dur) == FallbackTimestamp(cf, tf, dur)

---------------------------------------------------------------------------
(* The decode capability, as next_frame uses it.                           *)
(* decoder.ready: what receive_frame will hand out, in order; a number     *)
(* above 0 is a decoded frame (its place in the decoder's output), 0 is a  *)
(* frame whose decoding failed: receive_frame answers it with an error     *)
(* that is neither "no frame ready yet" nor "end of stream".               *)

ItemKinds == {"F", "E"}

RECURSIVE SeqsUpTo(_, _)
SeqsUpTo(S, n) ==
    IF n = 0 THEN {<<>>}
    ELSE LET shorter == SeqsUpTo(S, n - 1) IN
         shorter \cup {Append(q, x) : q \in {r \in shorter : Len(r) = n - 1}, x \in S}

Outs == SeqsUpTo(ItemKinds, MaxItems)

\* a packet of the container: its stream, whether the decoder accepts it,
\* and what the decoder makes receivable on accepting it
PacketKinds ==
    {[video |-> FALSE, ok |-> TRUE, out |-> <<>>],
     [video |-> TRUE, ok |-> FALSE, out |-> <<>>]}
    \cup {[video |-> TRUE, ok |-> TRUE, out |-> o] : o \in Outs}

RECURSIVE Release(_, _)
Release(dec, kinds) ==
    IF kinds = <<>> THEN dec
    ELSE IF Head(kinds) = "F"
         THEN Release([dec EXCEPT !.ready = Append(@, dec.produced + 1),
                                  !.produced = @ + 1], Tail(kinds))
         ELSE Release([dec EXCEPT !.ready = Append(@, 0),
                                  !.produced = @ + 1], Tail(kinds))

HoldsFrame(dec) == \E i \in 1..Len(dec.ready) : dec.ready[i] > 0

\* self.decoder.send_packet(&packet), line 135
SendPacket(dec, packet) ==
    IF packet.ok THEN [ok |-> TRUE, dec |-> Release(dec, packet.out)]
    ELSE [ok |-> FALSE, dec |-> dec]

\* self.decoder.send_eof(), line 196: the first accepted end marker starts
\* the draining and makes the frames the decoder still holds receivable
SendEof(dec, eof_ok, held) ==
    IF ~eof_ok THEN [ok |-> FALSE, dec |-> dec]
    ELSE IF dec.draining THEN [ok |-> TRUE, dec |-> dec]
    ELSE [ok |-> TRUE, dec |-> Release([dec EXCEPT !.draining = TRUE], held)]

\* self.decoder.receive_frame(&mut frame), lines 137 and 197
ReceiveFrame(dec) ==
    IF dec.ready = <<>> THEN [res |-> "again", id |-> 0, dec |-> dec]
    ELSE IF Head(dec.ready) = 0
         THEN [res |-> "error", id |-> 0, dec |-> [dec EXCEPT !.ready = Tail(@)]]
         ELSE [res |-> "ok", id |-> Head(dec.ready),
               dec |-> [dec EXCEPT !.ready = Tail(@)]]

\* the for loop over self.format_context.packets(), lines 130-193, up to the
\* first received frame, the first failed send_packet or the end of packets
RECURSIVE ReadPackets(_, _, _, _, _)
ReadPackets(packets, dec, nread, sent_pending, recv_err) ==
    IF packets = <<>>
    THEN [stop |-> "eof", id |-> 0, dec |-> dec, nread |-> nread,
          sent_pending |-> sent_pending, recv_err |-> recv_err]
    ELSE LET packet == Head(packets) IN
         IF ~packet.video
         THEN ReadPackets(Tail(packets), dec, nread + 1, sent_pending, recv_err)
         ELSE LET sent == SendPacket(dec, packet)
                  pending == sent_pending \/ HoldsFrame(dec)
              IN IF ~sent.ok
                 THEN [stop |-> "send_error", id |-> 0, dec |-> sent.dec,
                       nread |-> nread + 1, sent_pending |-> pending,
                       recv_err |-> recv_err]
                 ELSE LET got == ReceiveFrame(sent.dec) IN
                      IF got.res = "ok"
                      THEN [stop |-> "frame", id |-> got.id, dec |-> got.dec,
                            nread |-> nread + 1, sent_pending |-> pending,
                            recv_err |-> recv_err]
                      ELSE ReadPackets(Tail(packets), got.dec, nread + 1, pending,
                                       recv_err \/ got.res = "error")

---------------------------------------------------------------------------
(* VideoPlayer::next_frame, video_player.rs 125-236 *)

\* what self.scaler.run answers: an error, or rgb_frame with its row padding
ScalerOutcomes ==
    {[ok |-> FALSE, pad |-> 0, base |-> 0]}
    \cup {[ok |-> TRUE, pad |-> p, base |-> b] : p \in Pads, b \in ByteBases}

NoCall ==
    [ret |-> "NoCall", path |-> "none", err |-> "none", frame |-> None,
     rgb |-> None, decoded |-> None, dec |-> [ready |-> <<>>, draining |-> FALSE, produced |-> 0],
     cf |-> 0, nread |-> 0, at_eof |-> FALSE, sent_pending |-> FALSE,
     recv_err |-> FALSE, completed |-> FALSE]

\* the error return taking a frame number
FailedCounted(obs, err) == [obs EXCEPT !.ret = "Err", !.err = err, !.cf = @ + 1]

\* the `?` of lines 135, 139, 196 and 198: the call returns the error
Failed(obs, err) == [obs EXCEPT !.ret = "Err", !.err = err]

\* the counter left as it is
IncrementForgotten(cf) == cf

\* self.current_frame += 1, lines 141 and 200
Increment(cf) == cf + 1

\* lines 139-191 (path = "normal") and 198-232 (path = "flush"): the frame
\* just received goes through the scaler, is counted, copied and stamped
Emit(path, id, pts, sc, cf, tf, dur, w, h, obs) ==
    LET seen == [obs EXCEPT !.path = path, !.decoded = Some([id |-> id, pts |-> pts])] IN
    IF ~sc.ok THEN Failed(seen, "scaler")
    ELSE LET n == Increment(cf)
             rgb == RgbFrame(w, h, sc.pad, sc.base)
             copy == IF path = "normal" THEN StrideCopy(rgb) ELSE FlushStrideCopy(rgb)
             stamp == IF path = "normal" THEN Timestamp(pts, n, tf, dur)
                      ELSE FlushTimestamp(pts, n, tf, dur)
             counted == [seen EXCEPT !.cf = n, !.rgb = Some(rgb)]
         IN IF ~copy.ok \/ ~stamp.ok THEN [counted EXCEPT !.ret = "Panic"]
            ELSE [counted EXCEPT
                    !.ret = "Some",
                    !.frame = Some([data |-> copy.data, width |-> rgb.width,
                                    height |-> rgb.height, timestamp |-> stamp.ts,
                                    frame_number |-> n])]

\* lines 195-235: the end marker, then one receive
Flush(dec, cf, tf, dur, w, h, obs) ==
    UNION {
      LET sent == SendEof(dec, eof_ok, held)
          flushing == [obs EXCEPT !.path = "flush", !.dec = sent.dec]
      IN IF ~sent.ok THEN {Failed(flushing, "send_eof")}
         ELSE LET got == ReceiveFrame(sent.dec)
                  drained == [flushing EXCEPT !.dec = got.dec]
              IN IF got.res = "ok"
                 THEN {Emit("flush", got.id, pts, sc, cf, tf, dur, w, h, drained) :
                         pts \in PtsValues, sc \in ScalerOutcomes}
                 ELSE {[drained EXCEPT !.ret = "None",
                                       !.recv_err = @ \/ got.res = "error"]}
      : eof_ok \in BOOLEAN,
        held \in IF dec.draining THEN {<<>>}
                 ELSE {o \in Outs : dec.produced + Len(o) <= MaxItems} }

\* every way one next_frame() call can go from the player's state: the
\* packets it reads are the next packets of the container
NextFrameResults(dec, cf, read, eof, tf, dur, w, h) ==
    UNION {
      LET r == ReadPackets(packets, dec, 0, FALSE, FALSE)
          obs == [NoCall EXCEPT !.path = "normal", !.dec = r.dec, !.cf = cf,
                                !.nread = read + r.nread,
                                !.at_eof = (r.stop = "eof"),
                                !.sent_pending = r.sent_pending,
                                !.recv_err = r.recv_err]
      IN IF r.nread # Len(packets) \/ r.dec.produced > MaxItems THEN {}
         ELSE IF r.stop = "send_error"
              THEN {Failed(obs, "send_packet")}
         ELSE IF r.stop = "frame"
              THEN {Emit("normal", r.id, pts, sc, cf, tf, dur, w, h, obs) :
                      pts \in PtsValues, sc \in ScalerOutcomes}
         ELSE Flush(r.dec, cf, tf, dur, w, h, obs)
      : packets \in IF eof THEN {<<>>} ELSE SeqsUpTo(PacketKinds, MaxPkts - read) }

---------------------------------------------------------------------------
(* Pacing: gui.rs 45-55, sdl_gui.rs 57-62, video_player.rs 238-248 *)

\* 1_000_000_000 / target_fps as u64, as nanoseconds
IntervalNs(target_fps) == NanosPerSec \div target_fps

\* update_frame pacing on the interval the player was built with
EguiShouldAdvanceStale(last_time, target_fps, t) ==
    IF IsSome(last_time)
    THEN LET target_interval == IF IsSome(frame_duration) THEN Unwrap(frame_duration)
                                ELSE DefaultIntervalNs
         IN t - Unwrap(last_time) >= target_interval
    ELSE TRUE

\* MetricVideoPlayerApp::update_frame, gui.rs 45-55
EguiShouldAdvance(last_time, target_fps, t) ==
    IF IsSome(last_time)
    THEN LET target_interval == IF target_fps > 0 THEN IntervalNs(target_fps)
                                ELSE DefaultIntervalNs
         IN t - Unwrap(last_time) >= target_interval
    ELSE TRUE

\* run_sdl_gui, sdl_gui.rs 57-62
SdlShouldAdvance(last_time, target_fps, t) ==
    IF target_fps > 0
    THEN t - Unwrap(last_time) >= IntervalNs(target_fps)
    ELSE TRUE

\* maintain_target_fps recording the instant whatever frame_duration is
MaintainTargetFpsRecording(fd, last_time, t) ==
    IF IsSome(fd)
    THEN LET elapsed == IF IsSome(last_time) THEN t - Unwrap(last_time) ELSE 0
             woke == IF IsSome(last_time) /\ elapsed < Unwrap(fd)
                     THEN t + (Unwrap(fd) - elapsed) ELSE t
         IN [now |-> woke, last_frame_time |-> Some(woke)]
    ELSE [now |-> t, last_frame_time |-> Some(t)]

\* maintain_target_fps recording the instant it was called at
MaintainTargetFpsEarly(fd, last_time, t) ==
    IF IsSome(fd)
    THEN LET elapsed == IF IsSome(last_time) THEN t - Unwrap(last_time) ELSE 0
             woke == IF IsSome(last_time) /\ elapsed < Unwrap(fd)
                     THEN t + (Unwrap(fd) - elapsed) ELSE t
         IN [now |-> woke, last_frame_time |-> Some(t)]
    ELSE [now |-> t, last_frame_time |-> last_time]

\* VideoPlayer::maintain_target_fps at instant t: the instant it returns at
\* and the last_frame_time it leaves
MaintainTargetFps(fd, last_time, t) ==
    IF IsSome(fd)
    THEN LET elapsed == IF IsSome(last_time) THEN t - Unwrap(last_time) ELSE 0
             woke == IF IsSome(last_time) /\ elapsed < Unwrap(fd)
                     THEN t + (Unwrap(fd) - elapsed) ELSE t
         IN [now |-> woke, last_frame_time |-> Some(woke)]
    ELSE [now |-> t, last_frame_time |-> last_time]

---------------------------------------------------------------------------
(* VideoPlayer::new, video_player.rs 83-122 *)

\* lines 91-103
NewDuration(nb_frames, stream_duration, avg_frame_rate) ==
    IF stream_duration * TimeBase.num > 0
    THEN (stream_duration * TimeBase.num * Secs(1)) \div TimeBase.den
    ELSE IF avg_frame_rate > 0
         THEN (nb_frames * Secs(1)) \div avg_frame_rate
         ELSE Secs(FallbackDuration)

\* lines 83-87
NewFrameDuration(target_fps) ==
    IF target_fps > 0 THEN Some(IntervalNs(target_fps)) ELSE None

InitWith(modes, widths, heights) ==
    /\ mode \in modes
    /\ video_width \in widths
    /\ video_height \in heights
    /\ decision = None
    /\ args_target_fps \in TargetFpsValues
    /\ pc = "running"
    /\ now = 0
    /\ ticks = 0
    /\ pkts_read = 0
    /\ at_eof = FALSE
    /\ decoder = [ready |-> <<>>, draining |-> FALSE, produced |-> 0]
    /\ current_frame = 0
    /\ total_frames \in NbFramesValues
    /\ \E sd \in StreamDurationValues, afr \in AvgFrameRateValues :
          duration = NewDuration(total_frames, sd, afr)
    /\ frame_duration = NewFrameDuration(args_target_fps)
    /\ last_frame_time = None
    /\ call = NoCall
    /\ emitted = <<>>
    /\ is_playing = TRUE
    /\ gui_last_frame_time = IF mode = "sdl" THEN Some(now) ELSE None
    /\ frame_count = 0
    /\ pace = None
    /\ metrics_total_frames = 0
    /\ frame_metrics = <<>>
    /\ frame_times = <<>>
    /\ peak_memory_mb = 0
    /\ peak_cpu_percent = 0
    /\ metrics_last_frame_time = None
    /\ recorded = <<>>
    /\ metrics_call = [op |-> "new", ret |-> None]
    /\ dropped_frames = 0
    /\ export_file = None

Init == InitWith(Modes, {VideoSize.width}, {VideoSize.height})

---------------------------------------------------------------------------
(* The calls the loops make *)

\* what a loop keeps of a call once its iteration is over: the frame, a
\* local of the iteration, is dropped
Kept(res) == [res EXCEPT !.frame = None, !.rgb = None, !.decoded = None]

\* what a polling loop makes of the call: the else of
\* `if let Ok(Some(frame)) = next_frame()` sets is_playing = false and logs
\* "Video playback completed", gui.rs 106-110 and sdl_gui.rs 107-111
Polled(res) ==
    IF res.ret = "Some" \/ res.ret = "Panic" THEN Kept(res)
    ELSE [Kept(res) EXCEPT !.completed = TRUE]

\* the player after a next_frame() call that went as res
Called(res, seen) ==
    /\ call' = seen
    /\ decoder' = res.dec
    /\ current_frame' = res.cf
    /\ pkts_read' = res.nread
    /\ at_eof' = (at_eof \/ res.at_eof)
    /\ emitted' = IF res.ret = "Some"
                  THEN Append(emitted,
                              [frame_number |-> Unwrap(res.frame).frame_number,
                               path |-> res.path, id |-> Unwrap(res.decoded).id])
                  ELSE emitted

Results == NextFrameResults(decoder, current_frame, pkts_read, at_eof,
                            total_frames, duration, video_width, video_height)

Max(a, b) == IF a >= b THEN a ELSE b

\* the peak taking the last snapshot
UpdatePeakLast(peak, current) == current

\* self.peak_memory_mb.max(memory_usage_mb), metrics.rs 108-109
UpdatePeak(peak, current) == Max(peak, current)

\* the window evicting on reaching the capacity
PushWindowEarly(window, entry) ==
    LET pushed == Append(window, entry) IN
    IF Len(pushed) >= FpsWindowSize THEN Tail(pushed) ELSE pushed

\* frame_times.push_back, then pop_front over the capacity, metrics.rs 123-126
PushWindow(window, entry) ==
    LET pushed == Append(window, entry) IN
    IF Len(pushed) > FpsWindowSize THEN Tail(pushed) ELSE pushed

\* the sample log keeping the latest sample only
PushSampleOver(log, sample) == <<sample>>

\* self.frame_metrics.push(metrics), metrics.rs 120
PushSample(log, sample) == Append(log, sample)

\* MetricsCollector::record_frame at instant t, metrics.rs 82-130; snap is
\* what the process refresh of line 93 reports.  processing_time_ms is kept
\* in ns, the f64 holding the fraction of the ms
RecordFrame(frame_number, frame, t, snap) ==
    LET processing_time == IF IsSome(metrics_last_frame_time)
                           THEN t - Unwrap(metrics_last_frame_time) ELSE 0
    IN /\ peak_memory_mb' = UpdatePeak(peak_memory_mb, snap.memory_usage_mb)
       /\ peak_cpu_percent' = UpdatePeak(peak_cpu_percent, snap.cpu_usage_percent)
       /\ frame_metrics' = PushSample(frame_metrics,
                                  [frame_number |-> frame_number,
                                   timestamp |-> frame.timestamp,
                                   processing_time_ms |-> processing_time,
                                   memory_usage_mb |-> snap.memory_usage_mb,
                                   cpu_usage_percent |-> snap.cpu_usage_percent])
       /\ frame_times' = PushWindow(frame_times,
                                    [instant |-> t, frame_number |-> frame_number])
       /\ metrics_total_frames' = metrics_total_frames + 1
       /\ metrics_last_frame_time' = Some(t)
       /\ recorded' = Append(recorded,
                             [instant |-> t, frame_number |-> frame_number,
                              memory_usage_mb |-> snap.memory_usage_mb,
                              cpu_usage_percent |-> snap.cpu_usage_percent])
       /\ metrics_call' = [op |-> "record_frame", ret |-> None]
       /\ UNCHANGED <<dropped_frames, export_file>>

\* MetricsCollector::get_total_frames, metrics.rs 227-229
GetTotalFrames == metrics_total_frames

\* a rate as an f64: frames / (nanos / 1e9) per second; 0.0 is Zero
Zero == [frames |-> 0, nanos |-> NanosPerSec]

\* get_current_fps falling back on the session average under two entries
GetCurrentFpsOrAverage(window) ==
    IF Len(window) < 2
    THEN IF now > 0 THEN [frames |-> metrics_total_frames, nanos |-> now]
         ELSE Zero
    ELSE LET first == Head(window)
             last == window[Len(window)]
             time_diff == Max(0, last.instant - first.instant)
         IN IF time_diff > 0
            THEN [frames |-> last.frame_number - first.frame_number,
                  nanos |-> time_diff]
            ELSE Zero

\* get_current_fps counting the time from the session start
GetCurrentFpsSession(window) ==
    IF Len(window) < 2 THEN Zero
    ELSE LET first == Head(window)
             last == window[Len(window)]
             time_diff == Max(0, last.instant)
         IN IF time_diff > 0
            THEN [frames |-> last.frame_number - first.frame_number,
                  nanos |-> time_diff]
            ELSE Zero

\* MetricsCollector::get_current_fps, metrics.rs 132-148; duration_since
\* saturates at 0
GetCurrentFps(window) ==
    IF Len(window) < 2 THEN Zero
    ELSE LET first == Head(window)
             last == window[Len(window)]
             time_diff == Max(0, last.instant - first.instant)
             frame_diff == last.frame_number - first.frame_number
         IN IF time_diff > 0
            THEN [frames |-> frame_diff, nanos |-> time_diff]
            ELSE Zero

\* f64::INFINITY as a rate
Infinity == [frames |-> 1, nanos |-> 0]

\* a <= b on rates that are not NaN
RateLeq(a, b) == a.frames * b.nanos <= b.frames * a.nanos

RateEq(a, b) == RateLeq(a, b) /\ RateLeq(b, a)

\* f64::max and f64::min
RateMax(a, b) == IF RateLeq(b, a) THEN a ELSE b

RateMin(a, b) == IF RateLeq(a, b) THEN a ELSE b

\* MetricsCollector::get_average_fps at instant t, metrics.rs 150-157;
\* session_start is instant 0
GetAverageFps(t) ==
    LET elapsed == t IN
    IF elapsed > 0 THEN [frames |-> metrics_total_frames, nanos |-> elapsed]
    ELSE Zero

\* the closure of the map over windows(2), metrics.rs 162-169 and 176-183:
\* the pair of samples i, i + 1; bad is what a delta that is not positive
\* gives
PairRate(samples, i, bad) ==
    LET time_diff == samples[i + 1].timestamp - samples[i].timestamp IN
    IF time_diff > 0 THEN [frames |-> 1, nanos |-> time_diff * MillisNs]
    ELSE bad

\* .fold(0.0, f64::max), metrics.rs 170
RECURSIVE FoldMax(_, _, _)
FoldMax(samples, i, acc) ==
    IF i >= Len(samples) THEN acc
    ELSE FoldMax(samples, i + 1, RateMax(acc, PairRate(samples, i, Zero)))

\* .fold(f64::INFINITY, f64::min), metrics.rs 184
RECURSIVE FoldMin(_, _, _)
FoldMin(samples, i, acc) ==
    IF i >= Len(samples) THEN acc
    ELSE FoldMin(samples, i + 1, RateMin(acc, PairRate(samples, i, Infinity)))

\* get_max_fps looking at the first pair of samples only
GetMaxFpsFirstPair(samples) ==
    IF Len(samples) < 2 THEN Zero ELSE PairRate(samples, 1, Zero)

\* MetricsCollector::get_max_fps, metrics.rs 159-171
GetMaxFps(samples) == FoldMax(samples, 1, Zero)

\* MetricsCollector::get_min_fps, metrics.rs 173-185
GetMinFps(samples) == FoldMin(samples, 1, Infinity)

\* .sum::<f64>() over the samples, metrics.rs 195-197 and 209-211
RECURSIVE SumOf(_, _)
SumOf(samples, field) ==
    IF samples = <<>> THEN 0 ELSE samples[1][field] + SumOf(Tail(samples), field)

\* MetricsCollector::get_average_memory_mb and get_average_cpu_percent,
\* metrics.rs 191-199 and 205-213: the f64 sum / count, 0.0 on an empty log
Average(samples, field) ==
    IF samples = <<>> THEN [sum |-> 0, count |-> 1]
    ELSE [sum |-> SumOf(samples, field), count |-> Len(samples)]

\* MetricsCollector::finalize_session at instant t, metrics.rs 231-247;
\* start_time is instant 0
FinalizeSession(t) ==
    [start_time |-> 0,
     end_time |-> t,
     total_frames |-> metrics_total_frames,
     total_duration_seconds |-> t,
     average_fps |-> GetAverageFps(t),
     max_fps |-> GetMaxFps(frame_metrics),
     min_fps |-> GetMinFps(frame_metrics),
     peak_memory_mb |-> peak_memory_mb,
     average_memory_mb |-> Average(frame_metrics, "memory_usage_mb"),
     average_cpu_percent |-> Average(frame_metrics, "cpu_usage_percent"),
     peak_cpu_percent |-> peak_cpu_percent,
     dropped_frames |-> dropped_frames,
     frame_metrics |-> frame_metrics]

\* what the serializer and the file system answer to an export
ExportOutcomes == {"ok", "serialize_failed", "create_failed", "write_failed"}

\* MetricsCollector::export_to_file, metrics.rs 249-254: to_string_pretty,
\* then std::fs::write, which creates or truncates the file and then writes
\* the text; a write that fails on the way leaves the part already written
ExportToFile(report, outcome, file) ==
    CASE outcome = "serialize_failed" -> [ret |-> "Err", file |-> file]
      [] outcome = "create_failed" -> [ret |-> "Err", file |-> file]
      [] outcome = "write_failed" ->
           [ret |-> "Err", file |-> Some([complete |-> FALSE, report |-> report])]
      [] OTHER -> [ret |-> "Ok", file |-> Some([complete |-> TRUE, report |-> report])]

Outcome(res) ==
    CASE res.ret = "Some" -> "running"
      [] res.ret = "None" -> "done"
      [] res.ret = "Err" -> "failed"
      [] OTHER -> "panicked"

---------------------------------------------------------------------------
(* The driving loops *)

\* the process snapshots the loops meet
LoopSnapshots == {SteadyInput}

\* the polling loops numbering the samples from 0
FrameNumberFromZero(frame) == frame.frame_number - 1

\* the frame number the polling loops hand to record_frame: the frame's
\* own, gui.rs 61 and sdl_gui.rs 66
FrameNumber(frame) == frame.frame_number

\* a loop's finalize_session() or export_to_file() call: the collector keeps
\* its fields, metrics.rs 231-254
Reported(op, ret, file) ==
    /\ metrics_call' = [op |-> op, ret |-> ret]
    /\ export_file' = file
    /\ UNCHANGED <<metrics_total_frames, frame_metrics, frame_times,
                   peak_memory_mb, peak_cpu_percent, metrics_last_frame_time,
                   recorded, dropped_frames>>

\* one iteration of run_benchmark's while let, main.rs 119-129
BenchmarkIter ==
    /\ mode = "benchmark" /\ pc = "running" /\ ticks < MaxTicks
    /\ \E res \in Results, w \in WorkTimes, snap \in LoopSnapshots :
         /\ Called(res, Kept(res))
         /\ pc' = Outcome(res)
         /\ now' = now + w
         /\ IF res.ret = "Some"
            THEN /\ frame_count' = frame_count + 1
                 /\ RecordFrame(frame_count + 1, Unwrap(res.frame), now + w, snap)
            ELSE UNCHANGED <<frame_count, metricsVars>>
    /\ ticks' = ticks + 1
    /\ UNCHANGED <<staticVars, args_target_fps, last_frame_time, is_playing,
                   gui_last_frame_time, decision, pace>>

\* one iteration of run_cli's while let, main.rs 152-166
CliIter ==
    /\ mode = "cli" /\ pc = "running" /\ ticks < MaxTicks
    /\ \E res \in Results, w \in CliWorkTimes, snap \in LoopSnapshots :
         /\ Called(res, Kept(res))
         /\ pc' = Outcome(res)
         /\ IF res.ret = "Some"
            THEN LET paced == MaintainTargetFps(frame_duration, last_frame_time, now + w) IN
                 /\ frame_count' = frame_count + 1
                 /\ RecordFrame(frame_count + 1, Unwrap(res.frame), now + w, snap)
                 /\ now' = paced.now
                 /\ last_frame_time' = paced.last_frame_time
                 /\ pace' = Some([called_at |-> now + w, returned_at |-> paced.now,
                                  before |-> last_frame_time,
                                  after |-> paced.last_frame_time])
            ELSE /\ now' = now + w
                 /\ UNCHANGED <<frame_count, metricsVars, last_frame_time, pace>>
    /\ ticks' = ticks + 1
    /\ UNCHANGED <<staticVars, args_target_fps, is_playing, gui_last_frame_time,
                   decision>>

\* a pacing decision as the claims read it: the target_fps it was taken on,
\* the time since last_frame_time and since the last emitted frame (the
\* loops record every frame they emit), and should_advance
Decided(last_time, target_fps, t, should_advance) ==
    [target_fps |-> target_fps,
     elapsed |-> IF IsSome(last_time) THEN Some(t - Unwrap(last_time)) ELSE None,
     since_emit |-> IF recorded # <<>>
                    THEN Some(t - recorded[Len(recorded)].instant) ELSE None,
     advance |-> should_advance]

\* what the user does in one update: nothing, Pause/Play, File > Quit, or an
\* edit of the Target FPS field that parses as a u32
UiEvents ==
    {[kind |-> k, fps |-> 0] : k \in {"none", "play_pause", "quit"}}
    \cup {[kind |-> "target_fps", fps |-> f] : f \in EditedFpsValues}

\* the Play/Pause button stamping last_frame_time on every click
EguiUiStamping(ui, playing, last_time, t) ==
    /\ pc' = IF ui.kind = "quit" THEN "quit" ELSE pc
    /\ is_playing' = IF ui.kind = "play_pause" THEN ~playing ELSE playing
    /\ gui_last_frame_time' = IF ui.kind = "play_pause" THEN Some(t)
                              ELSE last_time
    /\ args_target_fps' = IF ui.kind = "target_fps" THEN ui.fps
                          ELSE args_target_fps

\* the widgets of update, gui.rs 136-138, 229-234 and 239-243, on the state
\* update_frame left; t is the instant of the click
EguiUi(ui, playing, last_time, t) ==
    /\ pc' = IF ui.kind = "quit" THEN "quit" ELSE pc
    /\ is_playing' = IF ui.kind = "play_pause" THEN ~playing ELSE playing
    /\ gui_last_frame_time' = IF ui.kind = "play_pause" /\ ~playing THEN Some(t)
                              ELSE last_time
    /\ args_target_fps' = IF ui.kind = "target_fps" THEN ui.fps
                          ELSE args_target_fps

\* eframe::App::update, gui.rs 116-362, idle ns after the last step:
\* update_frame (36-112), then the widgets
EguiUpdate ==
    /\ mode = "egui" /\ pc = "running" /\ ticks < MaxTicks
    /\ \E idle \in IdleTimes, ui \in UiEvents :
         LET t == now + idle
             should_advance == EguiShouldAdvance(gui_last_frame_time,
                                                 args_target_fps, t)
         IN /\ decision' = IF is_playing
                           THEN Some(Decided(gui_last_frame_time, args_target_fps,
                                             t, should_advance))
                           ELSE None
            /\ IF is_playing /\ should_advance
               THEN \E res \in Results, w \in WorkTimes, snap \in LoopSnapshots :
                      /\ Called(res, Polled(res))
                      /\ now' = t + w
                      /\ IF res.ret = "Panic"
                         THEN /\ pc' = "panicked"
                              /\ UNCHANGED <<is_playing, gui_last_frame_time,
                                             args_target_fps, metricsVars>>
                         ELSE IF res.ret = "Some"
                         THEN /\ RecordFrame(FrameNumber(Unwrap(res.frame)),
                                             Unwrap(res.frame), t + w, snap)
                              /\ EguiUi(ui, is_playing, Some(t + w), t + w)
                         ELSE /\ EguiUi(ui, FALSE, gui_last_frame_time, t + w)
                              /\ UNCHANGED metricsVars
               ELSE /\ now' = t
                    /\ EguiUi(ui, is_playing, gui_last_frame_time, t)
                    /\ UNCHANGED <<playerVars, metricsVars>>
    /\ ticks' = ticks + 1
    /\ UNCHANGED <<staticVars, last_frame_time, frame_count, pace>>

SdlEvents == {"none", "space", "quit"}

\* one iteration of run_sdl_gui's 'running loop, sdl_gui.rs 35-126; its
\* closing sleep and the wait for the display take idle ns
SdlIter ==
    /\ mode = "sdl" /\ pc = "running" /\ ticks < MaxTicks
    /\ \E ev \in SdlEvents, idle \in IdleTimes :
         IF ev = "quit"
         THEN /\ pc' = "quit"
              /\ UNCHANGED <<now, is_playing, gui_last_frame_time, playerVars,
                             metricsVars, decision>>
         ELSE LET playing == IF ev = "space" THEN ~is_playing ELSE is_playing
                  should_advance == SdlShouldAdvance(gui_last_frame_time,
                                                     args_target_fps, now)
              IN /\ decision' = IF playing
                                THEN Some(Decided(gui_last_frame_time,
                                                  args_target_fps, now,
                                                  should_advance))
                                ELSE None
                 /\ IF playing /\ should_advance
                    THEN \E res \in Results, w \in WorkTimes, snap \in LoopSnapshots :
                           /\ Called(res, Polled(res))
                           /\ IF res.ret = "Panic"
                              THEN /\ pc' = "panicked"
                                   /\ now' = now + w
                                   /\ is_playing' = playing
                                   /\ UNCHANGED <<gui_last_frame_time, metricsVars>>
                              ELSE /\ pc' = pc
                                   /\ now' = now + w + idle
                                   /\ IF res.ret = "Some"
                                      THEN /\ RecordFrame(
                                                FrameNumber(Unwrap(res.frame)),
                                                Unwrap(res.frame), now + w, snap)
                                           /\ gui_last_frame_time' = Some(now + w)
                                           /\ is_playing' = playing
                                      ELSE /\ is_playing' = FALSE
                                           /\ Reported("finalize_session",
                                                       FinalizeSession(now + w),
                                                       export_file)
                                           /\ UNCHANGED gui_last_frame_time
                    ELSE /\ pc' = pc
                         /\ now' = now + idle
                         /\ is_playing' = playing
                         /\ UNCHANGED <<gui_last_frame_time, playerVars,
                                        metricsVars>>
    /\ ticks' = ticks + 1
    /\ UNCHANGED <<staticVars, args_target_fps, last_frame_time, frame_count,
                   pace>>

\* main after run_benchmark or run_cli returned Ok, --export-metrics given,
\* main.rs 82-86 and 102-106
MainExport ==
    /\ mode \in {"benchmark", "cli"} /\ pc = "done"
    /\ \E outcome \in ExportOutcomes :
         LET exported == ExportToFile(FinalizeSession(now), outcome, export_file)
         IN /\ Reported("export_to_file", exported.ret, exported.file)
            /\ pc' = IF exported.ret = "Ok" THEN "exited" ELSE "failed"
    /\ UNCHANGED <<staticVars, args_target_fps, now, ticks, playerVars,
                   last_frame_time, is_playing, decision, gui_last_frame_time,
                   frame_count, pace>>

\* any sequence of next_frame() calls on one VideoPlayer
NextFrameCall ==
    /\ mode = "calls" /\ pc = "running" /\ ticks < MaxTicks
    /\ \E res \in Results :
         /\ Called(res, res)
         /\ pc' = IF res.ret = "Panic" THEN "panicked" ELSE pc
    /\ ticks' = ticks + 1
    /\ UNCHANGED <<staticVars, args_target_fps, now, last_frame_time, is_playing,
                   decision, gui_last_frame_time, frame_count, pace, metricsVars>>

PlayerInit == InitWith({"calls"}, {VideoSize.width}, {VideoSize.height})

PlayerSpec == PlayerInit /\ [][NextFrameCall]_vars

Next == BenchmarkIter \/ CliIter \/ EguiUpdate \/ SdlIter \/ MainExport

Spec == Init /\ [][Next]_vars

---------------------------------------------------------------------------
(* The normalisation alone: lines 139-191 and 198-232 on one received     *)
(* frame, for every small width, height and row padding                   *)

NormScalerOutcomes ==
    {[ok |-> TRUE, pad |-> p, base |-> b] : p \in 0..MaxPad, b \in ByteBases \cup {0}}

NormInit == InitWith({"emit"}, 1..MaxWidth, 1..MaxHeight)

NormEmit ==
    /\ mode = "emit" /\ pc = "running" /\ call.ret = "NoCall"
    /\ \E path \in {"normal", "flush"}, pts \in PtsValues, sc \in NormScalerOutcomes :
         LET res == Emit(path, 1, pts, sc, current_frame, total_frames, duration,
                         video_width, video_height, NoCall)
         IN /\ Called(res, res)
            /\ pc' = IF res.ret = "Panic" THEN "panicked" ELSE pc
    /\ ticks' = ticks + 1
    /\ UNCHANGED <<staticVars, args_target_fps, now, last_frame_time, is_playing,
                   decision, gui_last_frame_time, frame_count, pace, metricsVars>>

NormSpec == NormInit /\ [][NormEmit]_vars

---------------------------------------------------------------------------
(* The row-by-row copy of lines 157-164 and 213-218 as a function of the   *)
(* stride: one received frame whose buffer has any stride other than       *)
(* width*3, the strides under width*3 included                             *)

StrideScalerOutcomes(width) ==
    {[ok |-> TRUE, pad |-> p, base |-> b] :
       p \in {q \in (-MaxPad)..MaxPad : q # 0 /\ width * BytesPerPixel + q >= 1},
       b \in ByteBases \cup {0}}

StrideInit ==
    /\ InitWith({"rows"}, 1..MaxWidth, 1..MaxHeight)
    /\ args_target_fps = 0 /\ total_frames > 0 /\ duration = Secs(2)

StrideEmit ==
    /\ mode = "rows" /\ pc = "running" /\ call.ret = "NoCall"
    /\ \E path \in {"normal", "flush"}, pts \in PtsValues,
          sc \in StrideScalerOutcomes(video_width) :
         LET res == Emit(path, 1, pts, sc, current_frame, total_frames, duration,
                         video_width, video_height, NoCall)
         IN /\ Called(res, res)
            /\ pc' = IF res.ret = "Panic" THEN "panicked" ELSE pc
    /\ ticks' = ticks + 1
    /\ UNCHANGED <<staticVars, args_target_fps, now, last_frame_time, is_playing,
                   decision, gui_last_frame_time, frame_count, pace, metricsVars>>

StrideSpec == StrideInit /\ [][StrideEmit]_vars

---------------------------------------------------------------------------
(* The blocking loop alone, and the two polling loops alone *)

BlockingInit == InitWith({"cli"}, {VideoSize.width}, {VideoSize.height})

BlockingSpec == BlockingInit /\ [][CliIter]_vars

PollInit == InitWith({"egui", "sdl"}, {VideoSize.width}, {VideoSize.height})

PollNext == EguiUpdate \/ SdlIter

PollSpec == PollInit /\ [][PollNext]_vars

\* the egui loop on a stream that reports its frame count and its duration
EguiInit ==
    /\ InitWith({"egui"}, {VideoSize.width}, {VideoSize.height})
    /\ total_frames > 0
    /\ duration = Secs(2)

EguiSpec == EguiInit /\ [][EguiUpdate]_vars

\* the four loops, started with a target rate, on a stream that reports its
\* frame count and its duration
LoopsInit ==
    /\ InitWith(Modes, {VideoSize.width}, {VideoSize.height})
    /\ args_target_fps > 0
    /\ total_frames > 0
    /\ duration = Secs(2)

LoopsSpec == LoopsInit /\ [][Next]_vars

---------------------------------------------------------------------------
(* The MetricsCollector alone: any sequence of record_frame(),             *)
(* get_current_fps(), get_peak_memory_mb(), get_peak_cpu_percent() and     *)
(* finalize_session() calls; the callers number the frames 1, 2, 3, ...    *)

MetricsInit == InitWith({"metrics"}, {VideoSize.width}, {VideoSize.height})

MetricsUnchanged ==
    UNCHANGED <<staticVars, args_target_fps, pc, ticks, playerVars,
                last_frame_time, is_playing, decision, gui_last_frame_time,
                frame_count, pace>>

\* a caller's record_frame() call on the next frame of the stream
RecordNext(inputs) ==
    /\ \E in \in inputs :
         LET last_ts == IF frame_metrics = <<>> THEN 0
                        ELSE frame_metrics[Len(frame_metrics)].timestamp
             frame == [timestamp |-> Max(0, last_ts + in.ts),
                       frame_number |-> metrics_total_frames + 1]
         IN /\ now' = now + in.dt
            /\ RecordFrame(frame.frame_number, frame, now + in.dt, in)
    /\ MetricsUnchanged

MetricsRecordFrame ==
    /\ mode = "metrics" /\ metrics_total_frames < MaxFrames
    /\ RecordNext(IF metrics_total_frames < MaxVaried THEN RecordInputs
                  ELSE {SteadyInput})

\* an accessor or finalize_session: nothing of the collector changes
MetricsReturned(op, ret) ==
    /\ mode = "metrics"
    /\ metrics_call' = [op |-> op, ret |-> ret]
    /\ UNCHANGED <<now, metrics_total_frames, frame_metrics, frame_times,
                   peak_memory_mb, peak_cpu_percent, metrics_last_frame_time,
                   recorded, dropped_frames, export_file>>
    /\ MetricsUnchanged

MetricsGetCurrentFps == MetricsReturned("get_current_fps", GetCurrentFps(frame_times))

\* metrics.rs 187-189
MetricsGetPeakMemoryMb == MetricsReturned("get_peak_memory_mb", peak_memory_mb)

\* metrics.rs 201-203
MetricsGetPeakCpuPercent == MetricsReturned("get_peak_cpu_percent", peak_cpu_percent)

MetricsFinalizeSession == MetricsReturned("finalize_session", FinalizeSession(now))

MetricsNext ==
    \/ MetricsRecordFrame
    \/ MetricsGetCurrentFps
    \/ MetricsGetPeakMemoryMb
    \/ MetricsGetPeakCpuPercent
    \/ MetricsFinalizeSession

MetricsSpec == MetricsInit /\ [][MetricsNext]_vars

---------------------------------------------------------------------------
(* A short session of the MetricsCollector: a few record_frame() calls,    *)
(* each on any input, mixed with get_max_fps(), get_min_fps(),             *)
(* finalize_session(), export_to_file() and increment_dropped_frames();    *)
(* time passes between the calls                                           *)

SessionDelays == {0, SleepNs}

SessionInit ==
    /\ InitWith({"session"}, {VideoSize.width}, {VideoSize.height})
    /\ args_target_fps = 0 /\ total_frames > 0 /\ duration = Secs(2)

SessionRecordFrame ==
    /\ mode = "session" /\ metrics_total_frames < MaxSamples
    /\ RecordNext(RecordInputs)

\* the collector resetting its FPS window on an accessor, finalize or export
SessionReturnedResetting(op, ret, t, file) ==
    /\ mode = "session"
    /\ now' = t
    /\ metrics_call' = [op |-> op, ret |-> ret]
    /\ export_file' = file
    /\ frame_times' = <<>>
    /\ UNCHANGED <<metrics_total_frames, frame_metrics,
                   peak_memory_mb, peak_cpu_percent, metrics_last_frame_time,
                   recorded, dropped_frames>>
    /\ UNCHANGED <<staticVars, args_target_fps, pc, playerVars,
                   last_frame_time, is_playing, decision, gui_last_frame_time,
                   frame_count, pace>>

\* an accessor, finalize_session or export_to_file returning ret at instant
\* t, metrics.rs 132-254: the bodies assign no field of the collector
SessionReturned(op, ret, t, file) ==
    /\ mode = "session"
    /\ now' = t
    /\ metrics_call' = [op |-> op, ret |-> ret]
    /\ export_file' = file
    /\ UNCHANGED <<metrics_total_frames, frame_metrics, frame_times,
                   peak_memory_mb, peak_cpu_percent, metrics_last_frame_time,
                   recorded, dropped_frames>>
    /\ UNCHANGED <<staticVars, args_target_fps, pc, playerVars,
                   last_frame_time, is_playing, decision, gui_last_frame_time,
                   frame_count, pace>>

SessionGetMaxFps ==
    /\ SessionReturned("get_max_fps", GetMaxFps(frame_metrics), now, export_file)
    /\ UNCHANGED ticks

SessionGetMinFps ==
    /\ SessionReturned("get_min_fps", GetMinFps(frame_metrics), now, export_file)
    /\ UNCHANGED ticks

SessionFinalizeSession ==
    /\ ticks < MaxCalls
    /\ \E dt \in SessionDelays :
         SessionReturned("finalize_session", FinalizeSession(now + dt), now + dt,
                         export_file)
    /\ ticks' = ticks + 1

SessionExportToFile ==
    /\ ticks < MaxCalls
    /\ \E outcome \in ExportOutcomes :
         LET exported == ExportToFile(FinalizeSession(now), outcome, export_file)
         IN SessionReturned("export_to_file", exported.ret, now, exported.file)
    /\ ticks' = ticks + 1

\* the counter a call skips while it is even
IncrementDroppedFramesOdd(dropped) == IF dropped % 2 = 0 THEN dropped ELSE dropped + 1

\* self.dropped_frames += 1, metrics.rs 220
IncrementDroppedFrames(dropped) == dropped + 1

\* MetricsCollector::increment_dropped_frames, metrics.rs 219-221
SessionIncrementDroppedFrames ==
    /\ mode = "session" /\ ticks < MaxCalls
    /\ dropped_frames' = IncrementDroppedFrames(dropped_frames)
    /\ metrics_call' = [op |-> "increment_dropped_frames", ret |-> None]
    /\ ticks' = ticks + 1
    /\ UNCHANGED <<now, metrics_total_frames, frame_metrics, frame_times,
                   peak_memory_mb, peak_cpu_percent, metrics_last_frame_time,
                   recorded, export_file>>
    /\ UNCHANGED <<staticVars, args_target_fps, pc, playerVars,
                   last_frame_time, is_playing, decision, gui_last_frame_time,
                   frame_count, pace>>

SessionNext ==
    \/ SessionRecordFrame
    \/ SessionGetMaxFps
    \/ SessionGetMinFps
    \/ SessionFinalizeSession
    \/ SessionExportToFile
    \/ SessionIncrementDroppedFrames

SessionSpec == SessionInit /\ [][SessionNext]_vars

\* every producer of a report on one stream: the short sessions, and main
\* running the benchmark, the CLI or the SDL loop
ReportInit ==
    /\ InitWith({"session", "benchmark", "cli", "sdl"},
                {VideoSize.width}, {VideoSize.height})
    /\ args_target_fps = 0 /\ total_frames > 0 /\ duration = Secs(2)

ReportNext == SessionNext \/ BenchmarkIter \/ CliIter \/ SdlIter \/ MainExport

ReportSpec == ReportInit /\ [][ReportNext]_vars

---------------------------------------------------------------------------
(* Claims *)

Frame == Unwrap(call.frame)
Rgb == Unwrap(call.rgb)
Decoded == Unwrap(call.decoded)

\* C1: as long as no call has panicked, current_frame is the number of
\* next_frame() calls that returned Ok(Some) so far (0 at the start),
\* whatever path they took and whatever calls came between, and the N-th
\* frame returned carries frame_number N
C1_FrameNumbers ==
    pc # "panicked" =>
        /\ current_frame = Len(emitted)
        /\ \A i \in 1..Len(emitted) : emitted[i].frame_number = i
        /\ (call.ret = "Some" => Frame.frame_number = current_frame)

C1_Witness ==
    /\ Len(emitted) = 2
    /\ emitted[1].path = "normal" /\ emitted[2].path = "flush"
    /\ call.ret = "None"

\* C2: a call returns Ok(None) only when the decoder holds no decoded
\* frame any more
C2_NoneOnlyWhenDrained == call.ret = "None" => ~HoldsFrame(decoder)

\* C3: once a call has returned Ok(None), the next call returns Ok(None)
\* too and leaves current_frame as it is
C3_EndOfStreamStable ==
    [][call.ret = "None" => (call'.ret = "None" /\ current_frame' = current_frame)]_vars

\* C4: no call sends a packet while the decoder still holds a receivable
\* frame of an earlier packet
C4_DrainedBeforeSend == ~call.sent_pending

\* the rows of the source without their padding: byte i of the output is
\* byte (i mod width*3) of source row (i div width*3)
Reference(rgb) ==
    LET row_bytes == rgb.width * BytesPerPixel IN
    [i \in 1..(row_bytes * rgb.height) |->
        rgb.data[((i - 1) \div row_bytes) * rgb.stride + ((i - 1) % row_bytes) + 1]]

\* C5: a frame converted from a buffer whose stride exceeds width*3 is
\* returned with exactly the pixel bytes of the rows, in order
C5_RowByRowIsReference ==
    (call.ret = "Some" /\ Rgb.stride > Rgb.width * BytesPerPixel)
        => Frame.data = Reference(Rgb)

C5_Witness ==
    /\ call.ret = "Some" /\ call.path = "flush"
    /\ Rgb.stride > Rgb.width * BytesPerPixel
    /\ Rgb.width >= 2 /\ Rgb.height >= 2

\* C6: every frame returned holds width*height*3 bytes
C6_DataLength ==
    call.ret = "Some" => Len(Frame.data) = Frame.width * Frame.height * BytesPerPixel

C6_Witness ==
    /\ call.ret = "Some" /\ call.path = "flush"
    /\ Rgb.stride > Rgb.width * BytesPerPixel
    /\ Len(emitted) = 2 /\ emitted[1].path = "normal"

\* C7: with stride = width*3 the frame returned, copied whole, is what the
\* row-by-row copy makes of the same buffer
C7_FastPathIsRowByRow ==
    (call.ret = "Some" /\ Rgb.stride = Rgb.width * BytesPerPixel)
        => LET rows == CopyRows(Rgb.data, Rgb.width, Rgb.height, Rgb.stride, 0, <<>>)
           IN rows.ok /\ Frame.data = rows.data

C7_Witness ==
    /\ call.ret = "Some" /\ call.path = "normal"
    /\ Rgb.stride = Rgb.width * BytesPerPixel
    /\ Rgb.width >= 2 /\ Rgb.height >= 2

\* C8: a frame returned is stamped with its presentation timestamp through
\* the time base when it has one that is not negative, and with
\* current_frame / native_fps otherwise
C8_TimestampFromPts ==
    call.ret = "Some" =>
        Frame.timestamp =
            IF IsSome(Decoded.pts) /\ Unwrap(Decoded.pts) >= 0
            THEN (Unwrap(Decoded.pts) * TimeBase.num * Secs(1)) \div TimeBase.den
            ELSE FallbackTimestamp(current_frame, total_frames, duration).ts

\* C9: a call in which receive_frame failed for another reason than "no
\* frame ready yet" or "end of stream" returns an error
C9_ReceiveErrorReturned == call.recv_err => call.ret = "Err"

\* C10: a pacing decision taken in poll mode on target_fps = 0 is "advance"
C10_UncappedAdvances ==
    (IsSome(decision) /\ Unwrap(decision).target_fps = 0)
        => Unwrap(decision).advance

\* C11: a pacing decision taken in poll mode on target_fps > 0 after a
\* frame was emitted is "advance" exactly when the time since the last
\* emitted frame is at least floor(1e9 / target_fps) ns
C11_AdvanceIffIntervalSinceEmit ==
    (/\ IsSome(decision)
     /\ Unwrap(decision).target_fps > 0
     /\ IsSome(Unwrap(decision).since_emit))
        => (Unwrap(decision).advance
              <=> Unwrap(Unwrap(decision).since_emit)
                    >= NanosPerSec \div Unwrap(decision).target_fps)

\* C12: the pacing decision of the first iteration of a polling loop, when
\* no frame was emitted yet, is "advance"
C12_FirstDecisionAdvances ==
    (IsSome(decision) /\ ticks = 1 /\ Unwrap(decision).since_emit = None)
        => Unwrap(decision).advance

\* C13: in the blocking loop on target_fps = 0, no maintain_target_fps()
\* call sleeps and none records an instant: last_frame_time stays None
C13_UncappedMaintainIsNoOp ==
    args_target_fps = 0 =>
        /\ frame_duration = None
        /\ last_frame_time = None
        /\ (IsSome(pace) =>
               /\ Unwrap(pace).returned_at = Unwrap(pace).called_at
               /\ Unwrap(pace).after = Unwrap(pace).before)

C13_Witness ==
    /\ mode = "cli" /\ args_target_fps = 0
    /\ IsSome(pace) /\ frame_count = 2

\* C14: in the blocking loop on target_fps > 0, the first
\* maintain_target_fps() call returns at once; a later call sleeps
\* interval - elapsed when that is positive and not at all otherwise; each
\* call records the instant it returns at, so that two calls in a row
\* record instants at least floor(1e9 / target_fps) ns apart
C14_MaintainSleepsDeficit ==
    (args_target_fps > 0 /\ IsSome(pace)) =>
        LET p == Unwrap(pace)
            interval == NanosPerSec \div args_target_fps
            slept == p.returned_at - p.called_at
        IN /\ p.after = Some(p.returned_at)
           /\ last_frame_time = p.after
           /\ IF IsSome(p.before)
              THEN LET elapsed == p.called_at - Unwrap(p.before) IN
                   /\ slept = IF elapsed < interval THEN interval - elapsed ELSE 0
                   /\ Unwrap(p.after) - Unwrap(p.before) >= interval
              ELSE slept = 0

C14_Witness ==
    /\ mode = "cli" /\ args_target_fps = 30 /\ IsSome(pace)
    /\ IsSome(Unwrap(pace).before)
    /\ Unwrap(pace).returned_at > Unwrap(pace).called_at
    /\ frame_count = 2

\* C15: at target_fps > 0 and with a decode faster than the interval, the
\* frames are spaced by floor(1e9 / target_fps) ns in the blocking loop
\* (from one return of maintain_target_fps to the next) and in the polling
\* loops (from one emitted frame to the next, when the loop polls right at
\* the end of the interval)
C15_SameSteadySpacing ==
    /\ (/\ mode = "cli" /\ args_target_fps > 0
        /\ IsSome(pace) /\ IsSome(Unwrap(pace).before)
        /\ Unwrap(pace).called_at - Unwrap(Unwrap(pace).before)
              < NanosPerSec \div args_target_fps)
          => Unwrap(Unwrap(pace).after) - Unwrap(Unwrap(pace).before)
               = NanosPerSec \div args_target_fps
    /\ (/\ mode \in {"egui", "sdl"} /\ IsSome(decision)
        /\ Unwrap(decision).target_fps > 0
        /\ Unwrap(decision).advance /\ call.ret = "Some"
        /\ Unwrap(decision).since_emit
              = Some(NanosPerSec \div Unwrap(decision).target_fps))
          => LET interval == NanosPerSec \div Unwrap(decision).target_fps
                 spacing == recorded[Len(recorded)].instant
                              - recorded[Len(recorded) - 1].instant
             IN spacing - interval < interval => spacing = interval

\* C16: in the egui loop every pacing decision is taken on the target_fps
\* in force when it is taken, whatever the value was before: with a frame
\* time to compare with, it is "advance" exactly when the time since then
\* is at least floor(1e9 / target_fps) ns of that value; and no step
\* changes what was recorded of the frames emitted before
C16_NewTargetGoverns ==
    [][/\ (mode = "egui" /\ IsSome(decision')) =>
            /\ Unwrap(decision').target_fps = args_target_fps
            /\ (args_target_fps > 0 /\ IsSome(Unwrap(decision').elapsed)) =>
                  (Unwrap(decision').advance
                     <=> Unwrap(Unwrap(decision').elapsed)
                           >= NanosPerSec \div args_target_fps)
       /\ SubSeq(recorded', 1, Len(recorded)) = recorded
       /\ SubSeq(frame_metrics', 1, Len(frame_metrics)) = frame_metrics]_vars

C16_Witness ==
    /\ mode = "egui" /\ IsSome(decision)
    /\ Unwrap(decision).target_fps \in EditedFpsValues
    /\ frame_duration # NewFrameDuration(Unwrap(decision).target_fps)
    /\ Unwrap(decision).elapsed = Some(SleepNs)
    /\ Unwrap(decision).advance
    /\ Len(recorded) = 2

\* the last min(n, 60) of the n record_frame() calls so far, oldest first
LastRecorded ==
    LET n == Len(recorded)
        k == IF n < 60 THEN n ELSE 60
    IN [i \in 1..k |-> recorded[n - k + i]]

\* C17: the FPS window holds at most 60 entries: the instants and frame
\* numbers of the last min(n, 60) record_frame() calls, in recording order
C17_WindowIsLastSixty ==
    /\ Len(frame_times) <= 60
    /\ Len(frame_times) = Len(LastRecorded)
    /\ \A i \in 1..Len(LastRecorded) :
          /\ frame_times[i].instant = LastRecorded[i].instant
          /\ frame_times[i].frame_number = LastRecorded[i].frame_number

C17_Witness ==
    /\ Len(recorded) = 62 /\ Len(frame_times) = 60
    /\ frame_times[1].frame_number = 3
    /\ metrics_call.op = "record_frame"

\* C18: get_current_fps() called before the second record_frame() call
\* returns 0
C18_FpsZeroUnderTwoEntries ==
    (metrics_call.op = "get_current_fps" /\ Len(recorded) < 2)
        => metrics_call.ret.frames = 0

C18_Witness ==
    /\ metrics_call.op = "get_current_fps"
    /\ Len(recorded) = 1 /\ now > 0

\* C19: get_current_fps() called after two record_frame() calls or more
\* returns the frames between the oldest and the newest entry of the window
\* over the time between them, and 0 when that time is 0
C19_FpsFromWindowEnds ==
    (metrics_call.op = "get_current_fps" /\ Len(recorded) >= 2) =>
        LET oldest == LastRecorded[1]
            newest == LastRecorded[Len(LastRecorded)]
        IN IF newest.instant = oldest.instant
           THEN metrics_call.ret.frames = 0
           ELSE /\ metrics_call.ret.frames = newest.frame_number - oldest.frame_number
                /\ metrics_call.ret.nanos = newest.instant - oldest.instant

C19_Witness ==
    /\ metrics_call.op = "get_current_fps"
    /\ Len(recorded) = 62
    /\ metrics_call.ret.frames = 59
    /\ recorded[1].instant > 0

\* C20: no call on the collector lowers peak_memory_mb or peak_cpu_percent;
\* a record_frame() call leaves each at the larger of its value before and
\* the snapshot the call took; the accessors return the peaks
C20_PeaksNeverDecrease ==
    [][/\ peak_memory_mb' >= peak_memory_mb
       /\ peak_cpu_percent' >= peak_cpu_percent
       /\ Len(recorded') = Len(recorded) + 1 =>
             LET snap == recorded'[Len(recorded')] IN
             /\ peak_memory_mb'
                  = IF snap.memory_usage_mb > peak_memory_mb
                    THEN snap.memory_usage_mb ELSE peak_memory_mb
             /\ peak_cpu_percent'
                  = IF snap.cpu_usage_percent > peak_cpu_percent
                    THEN snap.cpu_usage_percent ELSE peak_cpu_percent
       /\ metrics_call'.op = "get_peak_memory_mb"
             => metrics_call'.ret = peak_memory_mb
       /\ metrics_call'.op = "get_peak_cpu_percent"
             => metrics_call'.ret = peak_cpu_percent]_vars

C20_Witness ==
    /\ metrics_call.op = "get_peak_memory_mb"
    /\ peak_memory_mb = 9 /\ peak_cpu_percent = 40
    /\ recorded[Len(recorded)].memory_usage_mb = 5
    /\ recorded[Len(recorded)].cpu_usage_percent = 5

---------------------------------------------------------------------------
\* C21: each record_frame() call appends exactly one sample to the sample
\* log, leaves the earlier samples as they were and adds exactly 1 to the
\* total-frame counter; get_total_frames() always equals the number of
\* record_frame() calls and the length of the sample log, and never decreases.
C21_LogAndCounter ==
    [][/\ GetTotalFrames' >= GetTotalFrames
       /\ GetTotalFrames = Len(recorded) /\ GetTotalFrames = Len(frame_metrics)
       /\ GetTotalFrames' = Len(recorded') /\ GetTotalFrames' = Len(frame_metrics')
       /\ Len(recorded') = Len(recorded) + 1 =>
            /\ Len(frame_metrics') = Len(frame_metrics) + 1
            /\ SubSeq(frame_metrics', 1, Len(frame_metrics)) = frame_metrics
            /\ frame_metrics'[Len(frame_metrics')].frame_number
                 = recorded'[Len(recorded')].frame_number
            /\ GetTotalFrames' = GetTotalFrames + 1]_vars

C21_Witness ==
    /\ metrics_call.op = "record_frame"
    /\ Len(recorded) = 3 /\ Len(frame_metrics) = 3
    /\ frame_metrics[1].memory_usage_mb # frame_metrics[2].memory_usage_mb

---------------------------------------------------------------------------
\* the timestamp deltas of the consecutive samples of the log
Deltas ==
    {frame_metrics[i + 1].timestamp - frame_metrics[i].timestamp :
       i \in 1..(Len(frame_metrics) - 1)}

\* C22: get_max_fps() is the greatest and get_min_fps() the least of
\* 1/(timestamp[i+1] - timestamp[i]) over the consecutive samples, a delta
\* that is not positive counting as 0 for the maximum and as +infinity for
\* the minimum; under two samples, or with no positive delta, the maximum is
\* 0 and the minimum +infinity.
C22_MaxMinOverPairs ==
    LET positive == {d \in Deltas : d > 0}
        least == CHOOSE d \in positive : \A e \in positive : d <= e
        most == CHOOSE d \in positive : \A e \in positive : d >= e
    IN /\ metrics_call.op = "get_max_fps" =>
            metrics_call.ret = IF positive = {} THEN Zero
                               ELSE [frames |-> 1, nanos |-> least * MillisNs]
       /\ metrics_call.op = "get_min_fps" =>
            metrics_call.ret = IF positive = {} THEN Infinity
                               ELSE [frames |-> 1, nanos |-> most * MillisNs]

C22_Witness ==
    /\ metrics_call.op = "get_max_fps"
    /\ Len(frame_metrics) = 3
    /\ \E d \in Deltas : d <= 0
    /\ frame_metrics[2].timestamp > frame_metrics[1].timestamp
    /\ metrics_call.ret = [frames |-> 1, nanos |-> 40 * MillisNs]

---------------------------------------------------------------------------
\* C23: two finalize_session() calls in a row, no record_frame() between
\* them, return reports with the same total_frames, the same peak_memory_mb
\* and the same average_fps, also when time passes between the two calls.
C23_FinalizeTwiceSame ==
    [][(/\ metrics_call.op = "finalize_session"
        /\ metrics_call'.op = "finalize_session"
        /\ ticks' = ticks + 1)
       => /\ metrics_call'.ret.total_frames = metrics_call.ret.total_frames
          /\ metrics_call'.ret.peak_memory_mb = metrics_call.ret.peak_memory_mb
          /\ RateEq(metrics_call'.ret.average_fps, metrics_call.ret.average_fps)]_vars

---------------------------------------------------------------------------
\* C24: finalize_session() and export_to_file() leave the total-frame
\* counter, the sample log, the FPS window, both peaks, dropped_frames and
\* last_frame_time as they were, so that recording goes on after them.
C24_FinalizeExportNoEffect ==
    [][(/\ metrics_call'.op \in {"finalize_session", "export_to_file"}
        /\ ticks' = ticks + 1)
       => UNCHANGED <<metrics_total_frames, frame_metrics, frame_times,
                      peak_memory_mb, peak_cpu_percent, dropped_frames,
                      metrics_last_frame_time>>]_vars

C24_Witness ==
    /\ metrics_call.op = "record_frame"
    /\ ticks = 2
    /\ IsSome(export_file) /\ Unwrap(export_file).report.total_frames = 1
    /\ metrics_total_frames = 2 /\ Len(frame_times) = 2
    /\ frame_metrics[2].processing_time_ms = SleepNs

---------------------------------------------------------------------------
---------------------------------------------------------------------------
\* C26: export_to_file() is all-or-nothing: the file at the path changes
\* only into the complete new report of a call that returns Ok; a call
\* that fails returns the error and leaves the file as it was.
C26_ExportAllOrNothing ==
    [][/\ export_file' # export_file =>
            /\ metrics_call'.op = "export_to_file" /\ metrics_call'.ret = "Ok"
            /\ export_file' = Some([complete |-> TRUE,
                                    report |-> FinalizeSession(now)'])
       /\ (metrics_call'.op = "export_to_file" /\ metrics_call'.ret = "Err") =>
            export_file' = export_file]_vars

---------------------------------------------------------------------------
\* C27: every frame the decoder yields, the frames it still buffers at the
\* end of the packets included, is emitted exactly once and in the
\* decoder's order before the end of the stream is reported: the frames
\* emitted are in increasing decoder order, no call reports the end of the
\* stream or fails on the flush path while the decoder holds a frame, and
\* no call that received a frame returns an error.
C27_EveryFrameEmittedOnce ==
    /\ \A i, j \in 1..Len(emitted) : i < j => emitted[i].id < emitted[j].id
    /\ call.ret = "None" => ~HoldsFrame(decoder)
    /\ (call.ret = "Err" /\ call.path = "flush") => ~HoldsFrame(decoder)
    /\ call.ret = "Err" => call.decoded = None

---------------------------------------------------------------------------
\* C28: a next_frame() call that returns an error (send_packet, send_eof
\* or the scaler failed) leaves current_frame as it was, and a call that
\* returns a frame numbers it current_frame + 1.
C28_ErrorKeepsFrameNumber ==
    [][/\ (call'.ret = "Err" /\ ticks' = ticks + 1) => current_frame' = current_frame
       /\ (call'.ret = "Some" /\ ticks' = ticks + 1) =>
            Unwrap(call'.frame).frame_number = current_frame + 1]_vars

C28_Witness ==
    /\ call.ret = "Err" /\ call.err = "scaler" /\ call.path = "flush"
    /\ IsSome(call.decoded)
    /\ current_frame = 1 /\ Len(emitted) = 1

---------------------------------------------------------------------------
\* C29: whenever a call computes the fallback timestamp
\* current_frame / native_fps, native_fps is strictly positive, also on
\* total_frames = 0 with a positive duration, and the timestamp is a finite
\* duration that is not negative: the call returns the frame.
C29_NativeFpsPositive ==
    (/\ call.ret \in {"Some", "Panic"}
     /\ \/ call.path = "flush"
        \/ ~IsSome(Decoded.pts)
        \/ Unwrap(Decoded.pts) * TimeBase.num < 0)
    => /\ GetNativeFps(total_frames, duration).num > 0
       /\ call.ret = "Some"
       /\ Frame.timestamp >= 0

---------------------------------------------------------------------------
\* every row of the buffer the call converted lies inside the buffer, and
\* the copy went through
RowsInside ==
    /\ \A y \in 0..(Rgb.height - 1) :
          y * Rgb.stride + Rgb.width * BytesPerPixel <= Len(Rgb.data)
    /\ Len(Rgb.data) = Rgb.stride * Rgb.height
    /\ call.ret = "Some"

\* C30 as stated: for every stride other than width*3, a stride under
\* width*3 included, the row-by-row copy reads only inside the source
\* buffer of stride*height bytes: y*stride + width*3 <= stride*height for
\* every row y < height.
C30_RowsInsideAnyStride ==
    (IsSome(call.rgb) /\ Rgb.stride # Rgb.width * BytesPerPixel) => RowsInside

\* C30, amended: for every stride above width*3 the row-by-row copy reads
\* only inside the source buffer of stride*height bytes.
C30_RowsInsidePadded ==
    (IsSome(call.rgb) /\ Rgb.stride > Rgb.width * BytesPerPixel) => RowsInside

C30_Witness ==
    /\ call.ret = "Some" /\ call.path = "normal"
    /\ Rgb.stride = Rgb.width * BytesPerPixel + MaxPad
    /\ Rgb.width = MaxWidth /\ Rgb.height = MaxHeight
    /\ Len(Frame.data) = MaxWidth * MaxHeight * BytesPerPixel

---------------------------------------------------------------------------
\* C31: in every driving loop each frame next_frame() emitted is recorded
\* exactly once and under its own number: the k-th sample of the log has
\* frame_number = k and is the k-th frame emitted, the frame numbers of the
\* FPS window increase strictly, and after each iteration that returned the
\* collector's total_frames equals the player's current_frame.
C31_EmittedRecordedOnce ==
    pc # "panicked" =>
        /\ Len(frame_metrics) = Len(emitted)
        /\ \A k \in 1..Len(frame_metrics) :
              /\ frame_metrics[k].frame_number = k
              /\ emitted[k].frame_number = k
        /\ \A i, j \in 1..Len(frame_times) :
              i < j => frame_times[i].frame_number < frame_times[j].frame_number
        /\ metrics_total_frames = current_frame

C31_Witness ==
    /\ mode = "egui" /\ pc = "running"
    /\ current_frame = 2 /\ metrics_total_frames = 2
    /\ Len(frame_times) = 2 /\ Len(emitted) = 2
    /\ call.ret = "None"

---------------------------------------------------------------------------
\* C32: a tick of the egui or SDL loop that finds playback paused, or whose
\* pacing decision is "do not advance", calls neither next_frame() nor
\* record_frame(): current_frame, the collector's total_frames and the
\* sample log stay as they were, and so does the instant of the last emit
\* unless the tick is the one that toggles play back on.
C32_PausedTickChangesNothing ==
    [][(/\ mode \in {"egui", "sdl"} /\ ticks' = ticks + 1
        /\ \/ decision' = None
           \/ ~Unwrap(decision').advance)
       => /\ UNCHANGED <<current_frame, metrics_total_frames, frame_metrics,
                         recorded, call, emitted>>
          /\ \/ gui_last_frame_time' = gui_last_frame_time
             \/ ~is_playing /\ is_playing']_vars

C32_Witness ==
    /\ mode = "egui" /\ pc = "running" /\ ticks = 3
    /\ ~is_playing /\ decision = None
    /\ call.ret = "Some" /\ current_frame = 1 /\ metrics_total_frames = 1

---------------------------------------------------------------------------
\* C33: the egui and SDL loops set is_playing to false themselves, and
\* report "Video playback completed", only when next_frame() returned
\* Ok(None); an error of next_frame() is not taken for the end of the video.
C33_CompletedOnlyOnNone == call.completed => call.ret = "None"

---------------------------------------------------------------------------
\* no decode failure so far: everything the decoder produced is a frame
\* that was emitted or is still held, no packet was refused, and the end
\* marker was refused at most as a repeated one
NoDecodeFailure ==
    /\ {emitted[i].id : i \in 1..Len(emitted)}
          \cup {decoder.ready[i] : i \in 1..Len(decoder.ready)}
       = 1..decoder.produced
    /\ call.err # "send_packet"
    /\ call.err = "send_eof" => decoder.draining

\* C34: on a stream from which the decoder yields finitely many frames F
\* without a decode failure, next_frame() returns Ok(Some) F times and then
\* Ok(None), never an error: the benchmark and CLI loops stop normally with
\* total_frames = F, and the egui and SDL loops end playback after F
\* recorded frames.
C34_StopsAfterEveryFrame ==
    NoDecodeFailure =>
        /\ call.ret \notin {"Err", "Panic"}
        /\ call.ret = "None" =>
             /\ ~HoldsFrame(decoder)
             /\ Len(emitted) = decoder.produced
             /\ metrics_total_frames = decoder.produced

====
